---- MODULE Spec2Model ----
(***************************************************************************)
(* A model of pydoku.py: the Sudoku board generator (generateBoard), the   *)
(* validator (checkWin), the hole carver (makeHoles), the text form        *)
(* (serialize / __create_from_file) and the player-facing handlers of      *)
(* SudokuUI working on SudokuGame.                                         *)
(*                                                                         *)
(* A board position is the flat index 9*row + col (0..80), the index of    *)
(* the list `sudoku` in generateBoard, which np.reshape((9, 9)) turns into *)
(* board[row][col].                                                        *)
(*                                                                         *)
(* Python objects have identity.  Four families of Cell objects exist, one *)
(* object per family and position:                                         *)
(*   "b"  the cells generateBoard creates (variable sudoku),               *)
(*   "s"  their deep copies made for solved_board (solvedCells),           *)
(*   "p"  the deep copies made for start_puzzle (startCells),              *)
(*   "w"  the deep copies SudokuGame.start makes of a blank (workCells).   *)
(* A 9x9 array holds references; boardArr and solvedArr give, for each     *)
(* slot, the family of the object it refers to.  boardRef says which array *)
(* object the attribute SudokuBoard.board refers to.                       *)
(*                                                                         *)
(* The random source is a stream of draws n / RandDenom in [0, 1).  The    *)
(* stream is the cyclic repetition of `tape`, chosen freely in Init.       *)
(*                                                                         *)
(* Spec      the construction SudokuGame(None, difficulty), SudokuUI(...)  *)
(*           for every stream and every difficulty.                        *)
(* SpecLive  Spec, with the constructor run to its end (weak fairness).    *)
(* SpecPlay  the construction and then the player's handlers, on the       *)
(*           boards of the constant streams.                               *)
(* SpecSolve File > Open on a puzzle with one blank, then the handlers.    *)
(* SpecLoad  __create_from_file on texts, and save_board / open_board.     *)
(* SpecCheck checkWin called on boards.                                    *)
(***************************************************************************)
EXTENDS Integers, Sequences, FiniteSets, TLC

VARIABLES
    pc,               \* where the program is: generate, check, holes, game, ui, play;
                      \* load, loaded, save, open, done, failed; call, returned
    tape,             \* the random source: the draws to come, repeated cyclically
    sudoku,           \* the "b" cells: generateBoard's list, then the cells of self.board
    cells,            \* generateBoard: the indices not yet finalized
    conflict,         \* generateBoard: Cell.remove has reached line 469 in this attempt
    boardArr,         \* the array made at line 391: per slot, the family it refers to
    solvedArr,        \* the array deepcopy makes at line 258: per slot, the family
    solvedCells,      \* the "s" cells
    boardRef,         \* the array SudokuBoard.board refers to: "B" or "S"
    startCells,       \* the "p" cells (SudokuGame.start_puzzle; its slots never change)
    workCells,        \* the "w" cells
    toMake,           \* makeHoles: the target of the difficulty
    squaresLeft,      \* makeHoles
    holesLeft,        \* makeHoles
    holePos,          \* makeHoles: 9 * i + j of the two loops
    game_over,        \* SudokuGame.game_over (FALSE also while not yet assigned)
    board_game_over,  \* SudokuBoard.game_over (FALSE while the attribute does not exist)
    row,              \* SudokuUI.row
    col,              \* SudokuUI.col
    keys,             \* typed digits accepted so far (bounds the session)
    board_file,       \* __create_from_file: the text of the file, a sequence of characters
    filePos,          \* __create_from_file: the place of the next character to read
    fileRow,          \* __create_from_file: the local row
    error,            \* the exception that ended the construction, "" if none
    saved,            \* the texts serialize has returned, in order
    saved_board,      \* the cells of the board when serialize first returned
    result            \* the value the last checkWin call returned

genVars == <<tape, sudoku, cells, conflict>>
heapVars == <<boardArr, solvedArr, solvedCells, boardRef, startCells, workCells>>
holeVars == <<toMake, squaresLeft, holesLeft, holePos>>
uiVars == <<game_over, row, col, keys>>
ioVars == <<board_file, filePos, fileRow, error, saved, saved_board>>

vars == <<pc, genVars, heapVars, holeVars, uiVars, board_game_over, ioVars, result>>

\* ------------------------------------------------------------- bounds
TapeLen == 3      \* the period of the random stream
RandDenom == 3    \* a draw is n / RandDenom, n in 0 .. RandDenom - 1
MaxKeys == 2      \* typed digits accepted in one session
MaxLines == 10    \* lines of a text handed to __create_from_file

\* ---------------------------------------------------------- constants
MARGIN == 30
SIDE == 50
WIDTH == MARGIN * 2 + SIDE * 9
HEIGHT == WIDTH

Pos == 0 .. 80

\* ------------------------------------------------------------- random
Tapes == [1 .. TapeLen -> 0 .. (RandDenom - 1)]

Advance(t) == Append(Tail(t), Head(t))

\* random.choice(seq) with the draw n / RandDenom: the element at
\* floor(random() * len(seq)).  (Which index a draw selects is the library's
\* matter; every index is some draw's.)
choice(seq, n) == seq[((n * Len(seq)) \div RandDenom) + 1]

\* --------------------------------------------------------------- Cell
rowOf(i) == i \div 9
colOf(i) == i % 9

box(r, c) ==
    (IF r \in {0, 1, 2} THEN 1 ELSE 0)
  + (IF r \in {3, 4, 5} THEN 4 ELSE 0)
  + (IF r \in {6, 7, 8} THEN 7 ELSE 0)
  + (IF c \in {0, 1, 2} THEN 0 ELSE 0)
  + (IF c \in {3, 4, 5} THEN 1 ELSE 0)
  + (IF c \in {6, 7, 8} THEN 2 ELSE 0)

boxOf(i) == box(rowOf(i), colOf(i))

Range(s) == {s[k] : k \in 1 .. Len(s)}

NewCell == [solved |-> FALSE, possibleAnswers |-> [k \in 1 .. 9 |-> k], answer |-> 0]

\* a wrong removal: the cell is not marked solved when one candidate remains
remove_never_solves(c, num) ==
    IF num \in Range(c.possibleAnswers) /\ c.solved = FALSE
    THEN [c EXCEPT !.possibleAnswers = SelectSeq(c.possibleAnswers, LAMBDA x : x # num)]
    ELSE c

remove(c, num) ==
    LET pa == SelectSeq(c.possibleAnswers, LAMBDA x : x # num)
        c1 == IF num \in Range(c.possibleAnswers) /\ c.solved = FALSE
              THEN IF Len(pa) = 1
                   THEN [solved |-> TRUE, possibleAnswers |-> pa, answer |-> pa[1]]
                   ELSE [c EXCEPT !.possibleAnswers = pa]
              ELSE c
    IN  IF num \in Range(c1.possibleAnswers) /\ c1.solved = TRUE
        THEN [c1 EXCEPT !.answer = 0]
        ELSE c1

\* the test of line 468 as remove(num) evaluates it: the cell is solved and its
\* one candidate is num
remove_conflicts(c, num) ==
    LET pa == SelectSeq(c.possibleAnswers, LAMBDA x : x # num)
        c1 == IF num \in Range(c.possibleAnswers) /\ c.solved = FALSE
              THEN IF Len(pa) = 1
                   THEN [solved |-> TRUE, possibleAnswers |-> pa, answer |-> pa[1]]
                   ELSE [c EXCEPT !.possibleAnswers = pa]
              ELSE c
    IN  num \in Range(c1.possibleAnswers) /\ c1.solved = TRUE

\* a wrong assignment: the answer attribute is left as it was
setAnswer_keeps_answer(c, num) == [solved |-> TRUE, possibleAnswers |-> <<num>>, answer |-> c.answer]

setAnswer(c, num) == [solved |-> TRUE, possibleAnswers |-> <<num>>, answer |-> num]

lenOfPossible(c) == Len(c.possibleAnswers)

\* a wrong read: the answer attribute in place of the one candidate
returnSolved_answer(c) == IF c.solved THEN c.answer ELSE 0

returnSolved(c) == IF c.solved THEN c.possibleAnswers[1] ELSE 0

\* a wrong reset: the digit 9 in place of the blank
hole_wrong_reset(c) == [solved |-> FALSE, possibleAnswers |-> <<1, 2, 3, 4, 5, 6, 7, 8, 9>>, answer |-> 9]

hole(c) == [solved |-> FALSE, possibleAnswers |-> <<1, 2, 3, 4, 5, 6, 7, 8, 9>>, answer |-> 0]

\* ----------------------------------------------------------- checkWin
\* a wrong comparison: the digits found need only be digits, not all nine of them
check_block_subset(block) == block \subseteq 1 .. 9

check_block(block) == block = 1 .. 9

check_row(b, r) == check_block({b[9 * r + c].answer : c \in 0 .. 8})

check_column(b, column) == check_block({b[9 * r + column].answer : r \in 0 .. 8})

\* a wrong range: the columns start at `column`, not at 3 * column
check_square_wrong_columns(b, r0, column) ==
    check_block({b[9 * r + c].answer :
                    r \in (r0 * 3) .. ((r0 + 1) * 3 - 1),
                    c \in column .. (column + 2)})

check_square(b, r0, column) ==
    check_block({b[9 * r + c].answer :
                    r \in (r0 * 3) .. ((r0 + 1) * 3 - 1),
                    c \in (column * 3) .. ((column + 1) * 3 - 1)})

checkWin(b) ==
    /\ \A r \in 0 .. 8 : check_row(b, r)
    /\ \A column \in 0 .. 8 : check_column(b, column)
    /\ \A r \in 0 .. 2 : \A column \in 0 .. 2 : check_square(b, r, column)

\* ------------------------------------------------------ generateBoard
emptyBoard == [i \in Pos |-> NewCell]

\* a wrong selection: the largest in place of the smallest
Min_largest(S) == CHOOSE x \in S : \A y \in S : x >= y

Min(S) == CHOOSE x \in S : \A y \in S : x <= y

\* a wrong pass: the test of the column is missing
propagate_no_column(c, i, index, answer) ==
    LET c1 == IF rowOf(index) = rowOf(i) THEN remove(c, answer) ELSE c
    IN  IF boxOf(index) = boxOf(i) THEN remove(c1, answer) ELSE c1

\* the three tests of one pass of the loop over the remaining cells
propagate(c, i, index, answer) ==
    LET c1 == IF rowOf(index) = rowOf(i) THEN remove(c, answer) ELSE c
        c2 == IF colOf(index) = colOf(i) THEN remove(c1, answer) ELSE c1
    IN  IF boxOf(index) = boxOf(i) THEN remove(c2, answer) ELSE c2

\* whether one of the three calls of remove in that pass reaches line 469
propagate_conflicts(c, i, index, answer) ==
    LET c1 == IF rowOf(index) = rowOf(i) THEN remove(c, answer) ELSE c
        c2 == IF colOf(index) = colOf(i) THEN remove(c1, answer) ELSE c1
    IN  \/ rowOf(index) = rowOf(i) /\ remove_conflicts(c, answer)
        \/ colOf(index) = colOf(i) /\ remove_conflicts(c1, answer)
        \/ boxOf(index) = boxOf(i) /\ remove_conflicts(c2, answer)

GenStep ==
    /\ pc = "generate"
    /\ Len(cells) > 0
    /\ \E m \in {Min({lenOfPossible(sudoku[cells[k]]) : k \in 1 .. Len(cells)})} :
       \E Lowest \in {SelectSeq(cells, LAMBDA i : lenOfPossible(sudoku[i]) = m)} :
       \E index \in {choice(Lowest, Head(tape))} :
       \E element \in {sudoku[index]} :
       \E rest \in {SelectSeq(cells, LAMBDA i : i # index)} :
       \E t1 \in {Advance(tape)} :
       \E done \in {IF ~element.solved
                     THEN setAnswer(element, choice(element.possibleAnswers, Head(t1)))
                     ELSE setAnswer(element, returnSolved(element))} :
       \E remaining \in {Range(rest)} :
           /\ cells' = rest
           /\ tape' = IF ~element.solved THEN Advance(t1) ELSE t1
           /\ sudoku' = [i \in Pos |->
                           IF i = index THEN done
                           ELSE IF i \in remaining
                                THEN propagate(sudoku[i], i, index, done.answer)
                                ELSE sudoku[i]]
           /\ conflict' = (conflict \/ \E i \in remaining :
                                          propagate_conflicts(sudoku[i], i, index, done.answer))
    /\ pc' = IF Len(cells) = 1 THEN "check" ELSE "generate"
    /\ UNCHANGED <<heapVars, holeVars, uiVars, board_game_over, ioVars, result>>

\* SudokuBoard.__init__, lines 256-257: checkWin fails, generate again
Retry ==
    /\ pc = "check"
    /\ ~checkWin(sudoku)
    /\ sudoku' = emptyBoard
    /\ cells' = [k \in 1 .. 81 |-> k - 1]
    /\ conflict' = FALSE
    /\ pc' = "generate"
    /\ result' = FALSE
    /\ UNCHANGED <<tape, heapVars, holeVars, uiVars, board_game_over, ioVars>>

DIFFICULTIES == {"easy", "medium", "hard"}

\* SudokuBoard.__init__, lines 256-259: checkWin succeeds (and sets the board's
\* game_over), solved_board becomes a deep copy, makeHoles starts
Accept ==
    /\ pc = "check"
    /\ checkWin(sudoku)
    /\ result' = TRUE
    /\ board_game_over' = TRUE
    /\ solvedCells' = sudoku
    /\ solvedArr' = [i \in Pos |-> "s"]
    /\ \E difficulty \in DIFFICULTIES :
          /\ toMake' = IF difficulty = "easy" THEN 49
                       ELSE IF difficulty = "medium" THEN 54 ELSE 60
          /\ holesLeft' = toMake'
    /\ squaresLeft' = 81
    /\ holePos' = 0
    /\ pc' = "holes"
    /\ UNCHANGED <<genVars, boardArr, boardRef, startCells, workCells, uiVars, ioVars>>

\* makeHoles: one pass of the inner loop, at board[i][j] with 9 * i + j = holePos
HoleStep ==
    /\ pc = "holes"
    /\ \E carve \in {Head(tape) * squaresLeft <= holesLeft * RandDenom} :
          /\ sudoku' = IF carve THEN [sudoku EXCEPT ![holePos] = hole(@)] ELSE sudoku
          /\ holesLeft' = IF carve THEN holesLeft - 1 ELSE holesLeft
    /\ squaresLeft' = squaresLeft - 1
    /\ holePos' = holePos + 1
    /\ tape' = Advance(tape)
    /\ pc' = IF holePos = 80 THEN "game" ELSE "holes"
    /\ UNCHANGED <<cells, conflict, heapVars, toMake, uiVars, board_game_over, ioVars, result>>

\* ------------------------------------------------------------ the heap
BoardSlots == IF boardRef = "B" THEN boardArr ELSE solvedArr

Obj(f, i) ==
    CASE f = "b" -> sudoku[i]
      [] f = "s" -> solvedCells[i]
      [] f = "p" -> startCells[i]
      [] f = "w" -> workCells[i]

\* self.game.board.board, self.game.board.solved_board, as grids of cells
board == [i \in Pos |-> Obj(BoardSlots[i], i)]
solved_board == [i \in Pos |-> Obj(solvedArr[i], i)]

\* stands for a family's object that was never created
NoCell == [solved |-> FALSE, possibleAnswers |-> <<>>, answer |-> 0]

\* ---------------------------------------------------------- SudokuGame
\* SudokuGame.__init__, line 441
GameInit ==
    /\ pc = "game"
    /\ startCells' = board
    /\ pc' = "ui"
    /\ UNCHANGED <<genVars, boardArr, solvedArr, solvedCells, boardRef, workCells,
                   holeVars, uiVars, board_game_over, ioVars, result>>

\* a wrong restart: the copies of the blanks are made once and then kept
start_keeps_copies ==
    /\ game_over' = FALSE
    /\ \E slots \in {[i \in Pos |-> IF startCells[i].answer # 0 THEN "p" ELSE "w"]} :
          IF boardRef = "B"
          THEN boardArr' = slots /\ UNCHANGED solvedArr
          ELSE solvedArr' = slots /\ UNCHANGED boardArr
    /\ workCells' = IF workCells = <<>>
                     THEN [i \in Pos |-> IF startCells[i].answer # 0 THEN NoCell ELSE startCells[i]]
                     ELSE workCells

start ==
    /\ game_over' = FALSE
    /\ \E slots \in {[i \in Pos |-> IF startCells[i].answer # 0 THEN "p" ELSE "w"]} :
          IF boardRef = "B"
          THEN boardArr' = slots /\ UNCHANGED solvedArr
          ELSE solvedArr' = slots /\ UNCHANGED boardArr
    /\ workCells' = [i \in Pos |-> IF startCells[i].answer # 0 THEN NoCell ELSE startCells[i]]

\* ------------------------------------------------------------ SudokuUI
\* SudokuUI.__init__
UIInit ==
    /\ pc = "ui"
    /\ start
    /\ row' = -1
    /\ col' = -1
    /\ pc' = "play"
    /\ UNCHANGED <<genVars, solvedCells, boardRef, startCells, holeVars, keys,
                   board_game_over, ioVars, result>>

FirstHole == Min({i \in Pos : startCells[i].answer = 0})
FirstClue == Min({i \in Pos : startCells[i].answer # 0})

centre(i) == [x |-> MARGIN + colOf(i) * SIDE + SIDE \div 2,
              y |-> MARGIN + rowOf(i) * SIDE + SIDE \div 2]

\* the clicks tried: on the first blank, on the first clue, outside the grid
ClickPoints == {centre(FirstHole), centre(FirstClue), [x |-> 0, y |-> 0]}

cell_clicked ==
    /\ pc = "play"
    /\ \E event \in ClickPoints :
          IF game_over
          THEN UNCHANGED <<row, col>>
          ELSE IF MARGIN < event.x /\ event.x < WIDTH - MARGIN
                  /\ MARGIN < event.y /\ event.y < HEIGHT - MARGIN
               THEN /\ row' = (event.y - MARGIN) \div SIDE
                    /\ col' = (event.x - MARGIN) \div SIDE
               ELSE /\ row' = -1
                    /\ col' = -1
    /\ UNCHANGED <<pc, genVars, heapVars, holeVars, game_over, keys, board_game_over, ioVars, result>>

str(d) == <<"0", "1", "2", "3", "4", "5", "6", "7", "8", "9">>[d + 1]

isdigit(ch) == \E d \in 0 .. 9 : str(d) = ch

int(ch) == CHOOSE d \in 0 .. 9 : str(d) = ch

\* a negative index counts from the end
PyIndex(k) == IF k < 0 THEN k + 9 ELSE k

\* event.char: a digit, another character, or "" (a key without a character)
KeyChars == {str(d) : d \in 0 .. 9} \cup {"a", ""}

\* `ch in "1234567890"` is a substring test: true of each digit and of ""
inDigitString(ch) == isdigit(ch) \/ ch = ""

key_pressed ==
    /\ pc = "play"
    /\ keys < MaxKeys
    /\ \E event \in [char : KeyChars] :
       \E idx \in {9 * PyIndex(row) + PyIndex(col)} :
       \E f \in {BoardSlots[idx]} :
          IF game_over \/ f = "p"
          THEN UNCHANGED <<heapVars, sudoku, uiVars, board_game_over, result>>
          ELSE IF row >= 0 /\ col >= 0 /\ inDigitString(event.char) /\ event.char # ""
               THEN /\ sudoku' = IF f = "b"
                                 THEN [sudoku EXCEPT ![idx] = setAnswer(@, int(event.char))]
                                 ELSE sudoku
                    /\ solvedCells' = IF f = "s"
                                 THEN [solvedCells EXCEPT ![idx] = setAnswer(@, int(event.char))]
                                 ELSE solvedCells
                    /\ workCells' = IF f = "w"
                                 THEN [workCells EXCEPT ![idx] = setAnswer(@, int(event.char))]
                                 ELSE workCells
                    /\ row' = -1
                    /\ col' = -1
                    /\ keys' = keys + 1
                    /\ UNCHANGED <<boardArr, solvedArr, boardRef, startCells, game_over>>
                    /\ result' = checkWin(board')
                    /\ board_game_over' = IF result' THEN TRUE ELSE board_game_over
               ELSE UNCHANGED <<heapVars, sudoku, uiVars, board_game_over, result>>
    /\ UNCHANGED <<pc, tape, cells, conflict, holeVars, ioVars>>

give_up ==
    /\ pc = "play"
    /\ boardRef' = "S"
    /\ UNCHANGED <<pc, genVars, boardArr, solvedArr, solvedCells, startCells, workCells,
                   holeVars, uiVars, board_game_over, ioVars, result>>

clear_answers ==
    /\ pc = "play"
    /\ start
    /\ UNCHANGED <<pc, genVars, solvedCells, boardRef, startCells, holeVars,
                   row, col, keys, board_game_over, ioVars, result>>


\* ------------------------------------------------- the text of a board
\* the characters str.strip removes, among those of the texts tried
Whitespace == {" ", "\n"}

RECURSIVE lstrip(_)
lstrip(line) ==
    IF line # <<>> /\ Head(line) \in Whitespace THEN lstrip(Tail(line)) ELSE line

RECURSIVE rstrip(_)
rstrip(line) ==
    IF line # <<>> /\ line[Len(line)] \in Whitespace
    THEN rstrip(SubSeq(line, 1, Len(line) - 1))
    ELSE line

strip(line) == rstrip(lstrip(line))

\* iterating over a file: a line ends with its "\n", or with the file
LineEnd(text, from) ==
    LET newlines == {k \in from .. Len(text) : text[k] = "\n"}
    IN  IF newlines = {} THEN Len(text) ELSE Min(newlines)

RECURSIVE join(_, _)
join(parts, sep) ==
    IF Len(parts) = 0 THEN <<>>
    ELSE IF Len(parts) = 1 THEN parts[1]
    ELSE parts[1] \o sep \o join(Tail(parts), sep)

\* np.zeros((9, 9), dtype=Cell): every slot holds the integer 0, which is no Cell
zeros == [i \in Pos |-> NoCell]

\* len(board) of the array np.zeros((9, 9)) made
len_board == 9

\* a transposed matrix: rows[i][j] taken from board[j][i]
serialize_matrix_transposed(b) ==
    [i \in 1 .. 9 |-> [j \in 1 .. 9 |-> b[9 * (j - 1) + (i - 1)].answer]]

\* rows[i][j], as sequences (from 1)
serialize_matrix(b) ==
    [i \in 1 .. 9 |-> [j \in 1 .. 9 |-> b[9 * (i - 1) + (j - 1)].answer]]

serialize(b) ==
    LET rows == serialize_matrix(b)
    IN  join([i \in 1 .. 9 |-> join([j \in 1 .. 9 |-> <<str(rows[i][j])>>], <<>>)], <<"\n">>)

\* __create_from_file: one pass of the loop over the lines of the file
create_from_file_line ==
    /\ pc = "load"
    /\ filePos <= Len(board_file)
    /\ \E end \in {LineEnd(board_file, filePos)} :
       \E line \in {strip(SubSeq(board_file, filePos, end))} :
       \E firstBad \in {Min({k \in 1 .. Len(line) : ~isdigit(line[k])} \cup {Len(line) + 1})} :
          /\ filePos' = end + 1
          /\ IF Len(line) # 9
             THEN /\ error' = "SudokuError: Each line in the sudoku puzzle must be 9 chars long."
                  /\ pc' = "failed"
                  /\ UNCHANGED <<sudoku, fileRow>>
             ELSE IF firstBad = 1 \/ (firstBad <= 9 /\ fileRow <= 8)
             THEN /\ error' = "SudokuError: Valid characters for a sudoku puzzle must be in 0-9"
                  /\ pc' = "failed"
                  /\ UNCHANGED <<sudoku, fileRow>>
             ELSE IF fileRow > 8
             THEN /\ error' = "IndexError"
                  /\ pc' = "failed"
                  /\ UNCHANGED <<sudoku, fileRow>>
             ELSE /\ sudoku' = [i \in Pos |->
                                  IF rowOf(i) = fileRow
                                  THEN setAnswer(NewCell, int(line[colOf(i) + 1]))
                                  ELSE sudoku[i]]
                  /\ fileRow' = fileRow + 1
                  /\ UNCHANGED <<pc, error>>
    /\ UNCHANGED <<tape, cells, conflict, heapVars, holeVars, uiVars, board_game_over,
                   board_file, saved, saved_board, result>>

\* __create_from_file, lines 355-358: the file is exhausted
create_from_file_end ==
    /\ pc = "load"
    /\ filePos > Len(board_file)
    /\ IF len_board # 9
       THEN /\ error' = "SudokuError: Each sudoku puzzle must be 9 lines long"
            /\ pc' = "failed"
       ELSE /\ pc' = "loaded"
            /\ UNCHANGED error
    /\ UNCHANGED <<genVars, heapVars, holeVars, uiVars, board_game_over,
                   board_file, filePos, fileRow, saved, saved_board, result>>

\* SudokuUI.save_board: the text of self.game.board is written to a file
save_board ==
    /\ pc \in {"save", "loaded"}
    /\ IF \E i \in Pos : board[i] = NoCell
       THEN /\ error' = "AttributeError"
            /\ pc' = "failed"
            /\ UNCHANGED <<saved, saved_board>>
       ELSE /\ saved' = Append(saved, serialize(board))
            /\ saved_board' = IF saved = <<>> THEN board ELSE saved_board
            /\ pc' = IF pc = "save" THEN "open" ELSE "done"
            /\ UNCHANGED error
    /\ UNCHANGED <<genVars, heapVars, holeVars, uiVars, board_game_over,
                   board_file, filePos, fileRow, result>>

\* SudokuUI.open_board on the file last written: a new SudokuBoard reads it
open_board ==
    /\ pc = "open"
    /\ board_file' = saved[Len(saved)]
    /\ filePos' = 1
    /\ fileRow' = 0
    /\ sudoku' = zeros
    /\ pc' = "load"
    /\ UNCHANGED <<tape, cells, conflict, heapVars, holeVars, uiVars, board_game_over,
                   error, saved, saved_board, result>>

\* SudokuUI.open_board once the file is read: the rest of SudokuGame.__init__
\* (line 441), new_board (lines 74-75) and the checkWin call of line 84
new_board_opened ==
    /\ pc = "loaded"
    /\ startCells' = board
    /\ game_over' = FALSE
    /\ boardArr' = [i \in Pos |-> IF board[i].answer # 0 THEN "p" ELSE "w"]
    /\ workCells' = [i \in Pos |-> IF board[i].answer # 0 THEN NoCell ELSE board[i]]
    /\ row' = -1
    /\ col' = -1
    /\ pc' = "play"
    /\ UNCHANGED <<genVars, solvedArr, solvedCells, boardRef, holeVars, keys, ioVars>>
    /\ result' = checkWin(board')
    /\ board_game_over' = IF result' THEN TRUE ELSE board_game_over

\* a direct call of checkWin on the board
call_checkWin ==
    /\ pc = "call"
    /\ result' = checkWin(board)
    /\ board_game_over' = IF result' THEN TRUE ELSE board_game_over
    /\ pc' = "returned"
    /\ UNCHANGED <<genVars, heapVars, holeVars, uiVars, ioVars>>

\* ------------------------------------------------------ specifications
Unset == <<>>

InitVars ==
    /\ pc = "generate"
    /\ sudoku = emptyBoard
    /\ cells = [k \in 1 .. 81 |-> k - 1]
    /\ conflict = FALSE
    /\ boardArr = [i \in Pos |-> "b"]
    /\ solvedArr = Unset
    /\ solvedCells = Unset
    /\ boardRef = "B"
    /\ startCells = Unset
    /\ workCells = Unset
    /\ toMake = 0
    /\ squaresLeft = 0
    /\ holesLeft = 0
    /\ holePos = 0
    /\ game_over = FALSE
    /\ board_game_over = FALSE
    /\ row = -1
    /\ col = -1
    /\ keys = 0
    /\ board_file = Unset
    /\ filePos = 0
    /\ fileRow = 0
    /\ error = ""
    /\ saved = <<>>
    /\ saved_board = Unset
    /\ result = FALSE

\* SudokuGame(None, difficulty), then SudokuUI(root, game): every random stream
Init ==
    /\ tape \in Tapes
    /\ InitVars

Next == GenStep \/ Retry \/ Accept \/ HoleStep \/ GameInit \/ UIInit

Spec == Init /\ [][Next]_vars

\* the same construction, never stopped before it is complete: a step that can be
\* taken is taken (the interpreter runs the constructor to its end)
SpecLive == Init /\ [][Next]_vars /\ WF_vars(Next)

\* the session of the player, on the boards of the constant random streams
InitPlay ==
    /\ tape \in {t \in Tapes : \A k \in 1 .. TapeLen : t[k] = t[1]}
    /\ InitVars

NextPlay ==
    \/ GenStep \/ Retry \/ Accept \/ HoleStep \/ GameInit \/ UIInit
    \/ cell_clicked \/ key_pressed \/ give_up \/ clear_answers

SpecPlay == InitPlay /\ [][NextPlay]_vars

\* ---------------------------------------------------- boards and texts
\* the solution the stream of draws 0, 0, 0, ... generates
SampleDigits ==
    <<1, 2, 3, 4, 5, 6, 7, 8, 9,
      4, 5, 6, 7, 8, 9, 1, 2, 3,
      7, 8, 9, 1, 2, 3, 4, 5, 6,
      2, 3, 1, 6, 7, 4, 8, 9, 5,
      8, 7, 5, 9, 1, 2, 3, 6, 4,
      6, 9, 4, 5, 3, 8, 2, 1, 7,
      3, 1, 7, 2, 6, 5, 9, 4, 8,
      5, 4, 2, 8, 9, 7, 6, 3, 1,
      9, 6, 8, 3, 4, 1, 5, 7, 2>>

SampleBoard == [i \in Pos |-> setAnswer(NewCell, SampleDigits[i + 1])]

\* reached by the construction: SampleBoard is a board of the program
SampleIsGenerated == pc = "game" /\ solved_board = SampleBoard

\* what a cell of a board can be: carved, or set to a digit (a typed 0 included)
CellStates == {hole(NewCell)} \cup {setAnswer(NewCell, d) : d \in 0 .. 9}

\* SampleBoard with one cell in another state
OneCellChanged == {[SampleBoard EXCEPT ![i] = c] : i \in Pos, c \in CellStates}

\* SampleBoard with two rows, two columns or two cells exchanged
swap(b, i, j) == [b EXCEPT ![i] = b[j], ![j] = b[i]]

RowsSwapped ==
    {[i \in Pos |-> SampleBoard[9 * (IF rowOf(i) = r1 THEN r2
                                     ELSE IF rowOf(i) = r2 THEN r1 ELSE rowOf(i)) + colOf(i)]] :
        r1 \in 0 .. 8, r2 \in 0 .. 8}

ColumnsSwapped ==
    {[i \in Pos |-> SampleBoard[9 * rowOf(i) + (IF colOf(i) = c1 THEN c2
                                     ELSE IF colOf(i) = c2 THEN c1 ELSE colOf(i))]] :
        c1 \in 0 .. 8, c2 \in 0 .. 8}

CellsSwapped == {swap(SampleBoard, i, j) : i \in {0, 10, 40}, j \in Pos}

TestBoards == OneCellChanged \cup RowsSwapped \cup ColumnsSwapped \cup CellsSwapped

SampleLine(r) == [j \in 1 .. 9 |-> str(SampleDigits[9 * r + j])]

\* a line of the file in the ways a line can be wrong, and with blanks
LineVariants(line) ==
    { SubSeq(line, 1, 8),
      line \o <<"1">>,
      [line EXCEPT ![5] = "a"],
      [line EXCEPT ![1] = "a"],
      <<" ", " ">> \o line \o <<" ">>,
      [line EXCEPT ![1] = "0", ![9] = "0"],
      <<>> }

LineLists ==
    UNION {LET base == [k \in 1 .. n |-> SampleLine((k - 1) % 9)]
           IN  {base} \cup UNION {{[base EXCEPT ![k] = v] : v \in LineVariants(base[k])} :
                                     k \in 1 .. n} :
           n \in 0 .. MaxLines}

Texts ==
    {join(lines, <<"\n">>) \o tail : lines \in LineLists, tail \in {<<>>, <<"\n">>}}

IdleVars ==
    /\ cells = <<>>
    /\ conflict = FALSE
    /\ boardArr = [i \in Pos |-> "b"]
    /\ solvedArr = Unset
    /\ solvedCells = Unset
    /\ boardRef = "B"
    /\ startCells = Unset
    /\ workCells = Unset
    /\ toMake = 0
    /\ squaresLeft = 0
    /\ holesLeft = 0
    /\ holePos = 0
    /\ game_over = FALSE
    /\ board_game_over = FALSE
    /\ row = -1
    /\ col = -1
    /\ keys = 0
    /\ fileRow = 0
    /\ error = ""
    /\ saved = <<>>
    /\ saved_board = Unset
    /\ result = FALSE
    /\ tape = [k \in 1 .. TapeLen |-> 0]

\* SudokuBoard(board_file) on a text, or save_board then open_board on a board
InitLoad ==
    /\ IdleVars
    /\ \/ /\ pc = "load"
          /\ board_file \in Texts
          /\ filePos = 1
          /\ sudoku = zeros
       \/ /\ pc = "save"
          /\ board_file = Unset
          /\ filePos = 0
          /\ sudoku \in OneCellChanged

NextLoad == create_from_file_line \/ create_from_file_end \/ save_board \/ open_board

SpecLoad == InitLoad /\ [][NextLoad]_vars

\* the text of SampleBoard with the digit at position h replaced by 0
OneBlankText(h) ==
    join([r \in 1 .. 9 |->
            [j \in 1 .. 9 |-> IF 9 * (r - 1) + (j - 1) = h THEN "0" ELSE SampleLine(r - 1)[j]]],
         <<"\n">>)

\* File > Open on a puzzle with one blank, then the session of the player.  (A
\* board read from a file has no solved_board, so `I give up` is left out.)
InitSolve ==
    /\ IdleVars
    /\ pc = "load"
    /\ board_file \in {OneBlankText(h) : h \in Pos}
    /\ filePos = 1
    /\ sudoku = zeros

NextSolve ==
    \/ create_from_file_line \/ create_from_file_end \/ new_board_opened
    \/ cell_clicked \/ key_pressed \/ clear_answers

SpecSolve == InitSolve /\ [][NextSolve]_vars

\* checkWin on a board
InitCheck ==
    /\ IdleVars
    /\ pc = "call"
    /\ board_file = Unset
    /\ filePos = 0
    /\ sudoku \in TestBoards

NextCheck == call_checkWin

SpecCheck == InitCheck /\ [][NextCheck]_vars

\* ------------------------------------------------------------- claims
Rows == {{i \in Pos : i \div 9 = r} : r \in 0 .. 8}
Columns == {{i \in Pos : i % 9 = c} : c \in 0 .. 8}
Boxes == {{i \in Pos : i \div 27 = a /\ (i % 9) \div 3 = b} : a \in 0 .. 2, b \in 0 .. 2}
Units == Rows \cup Columns \cup Boxes

\* every digit 1..9 exactly once among the cells of unit u of grid g
IsPermutation(g, u) == \A d \in 1 .. 9 : Cardinality({i \in u : g[i].answer = d}) = 1

Constructed == pc \in {"holes", "game", "ui", "play"}

Blanks(g) == {i \in Pos : g[i].answer = 0}

\* C1: once the construction of a generated board has left the generate-and-check
\* loop, every row, column and 3x3 box of solved_board is a permutation of 1..9,
\* whatever the random draws were.
C1_SolutionIsValid ==
    Constructed => \A u \in Units : IsPermutation(solved_board, u)

\* a construction that completed with its solution grid
C1_Witness ==
    /\ pc = "game"
    /\ \A u \in Units : IsPermutation(solved_board, u)

\* C3: when the pass of makeHoles has ended, the number of blank cells is exactly
\* the target of the difficulty (49, 54 or 60), for every sequence of draws.
C3_ExactHoleCount ==
    pc = "game" => Cardinality(Blanks(board)) = toMake

\* C4: after generation and carving every non-blank cell of the working grid holds
\* the digit of the solution grid at its position, and a step of the carving pass
\* leaves each cell as it was or blank.
C4_CarvedMatchesSolution ==
    /\ [](pc \in {"game", "ui", "play"} =>
            \A i \in Pos : board[i].answer # 0 => board[i].answer = solved_board[i].answer)
    /\ [][pc = "holes" =>
            \A i \in Pos : sudoku'[i].answer \in {sudoku[i].answer, 0}]_vars

\* a puzzle handed to the player, with blanks and with clues
C4_Witness ==
    /\ pc = "play"
    /\ \E i \in Pos : board[i].answer = 0
    /\ \E i \in Pos : board[i].answer # 0 /\ board[i].answer = solved_board[i].answer

\* C5: a typed key never changes the working grid's digit at a position that holds
\* a clue of the start puzzle.
C5_CluesRejectTypedKeys ==
    [][keys' # keys =>
         \A i \in Pos : startCells[i].answer # 0 => board'[i].answer = board[i].answer]_vars

\* C6: once generation has finished, no step changes a cell of solved_board.
C6_SolutionNeverMutated ==
    [][Constructed => solved_board' = solved_board]_vars

\* C10: a call of checkWin, whether it returns true or false, leaves every cell
\* of the board and both game_over flags as they were.
C10_CheckWinIsPure ==
    [][pc = "call" =>
         /\ board' = board
         /\ game_over' = game_over
         /\ board_game_over' = board_game_over]_vars

\* C2: checkWin returns true exactly when every row, every column and every 3x3
\* box of the board holds each digit 1..9 exactly once.
C2_CheckWinIffValid ==
    pc = "returned" => (result <=> \A u \in Units : IsPermutation(board, u))

\* checkWin has returned false on a board without blanks whose rows and columns
\* are all permutations: only a box holds a digit twice
C2_Witness ==
    /\ pc = "returned"
    /\ result = FALSE
    /\ Blanks(board) = {}
    /\ \A u \in Rows \cup Columns : IsPermutation(board, u)

DigitChars == {"0", "1", "2", "3", "4", "5", "6", "7", "8", "9"}

\* exactly 9 lines of exactly 9 decimal digits each (the last line with or
\* without its line end)
WellFormed(text) ==
    LET body == IF text # <<>> /\ text[Len(text)] = "\n"
                THEN SubSeq(text, 1, Len(text) - 1)
                ELSE text
    IN  /\ Len(body) = 89
        /\ \A k \in 1 .. 89 : IF k % 10 = 0 THEN body[k] = "\n" ELSE body[k] \in DigitChars

\* C7: __create_from_file returns a board only for a text of exactly 9 lines of
\* exactly 9 decimal digits each; every other text ends in an error.
C7_MalformedTextRejected ==
    pc = "loaded" => WellFormed(board_file)

\* C8: the board loaded from the text serialize gave holds the digit of the saved
\* board at every position, and its own text is the same text.
C8_RoundTrip ==
    (pc = "done" /\ Len(saved) = 2) =>
        /\ \A i \in Pos : board[i].answer = saved_board[i].answer
        /\ saved[2] = saved[1]

\* a board with a blank was saved, loaded and saved again
C8_Witness ==
    /\ pc = "done"
    /\ Len(saved) = 2
    /\ \E i \in Pos : saved_board[i] = hole(NewCell)
    /\ \E i \in Pos : saved_board[i].answer = 9

\* C9: in a loaded board every cell read from the character 0 is an unsolved blank
\* with the candidates 1..9, the state hole() leaves a carved cell in.
C9_LoadedZeroIsHole ==
    pc = "loaded" =>
        \A i \in Pos : (board[i] # NoCell /\ board[i].answer = 0) => board[i] = hole(board[i])

\* C11: board generation always terminates: the loop that generates, validates and
\* generates again is left after a bounded number of attempts, so every run of
\* the constructor comes to makeHoles and then hands a puzzle to the player (or
\* ends with an explicit failure).
C11_GenerationTerminates ==
    <>(pc = "play" \/ error # "")

\* C12: the grid an attempt hands to the validator fails it exactly when, at some
\* step of the attempt, the digit just assigned was removed from a cell not yet
\* finalized that was already solved with that digit (line 469); and no cell of
\* that grid holds the blank 0 the conflict wrote.
C12_InvalidIffConflict ==
    pc = "check" =>
        /\ ~checkWin(sudoku) <=> conflict
        /\ \A i \in Pos : sudoku[i].answer \in 1 .. 9

\* an attempt with a conflict is at the validator, which fails it
C12_Witness ==
    /\ pc = "check"
    /\ conflict
    /\ ~checkWin(sudoku)

\* the positions generateBoard has not yet finalized, and those a step finalizes
Unfinalized == Range(cells)
Finalized == Pos \ Range(cells)

\* C13: in every iteration of an attempt the position finalized is an unfinalized
\* position whose number of candidates is the least among the unfinalized ones;
\* so while a cell already solved by propagation waits, no cell with two or more
\* candidates is given a random digit.
C13_MinimumDomainSelected ==
    [][pc = "generate" =>
         \A i \in Unfinalized \ Range(cells') :
             /\ \A j \in Unfinalized :
                    Len(sudoku[i].possibleAnswers) <= Len(sudoku[j].possibleAnswers)
             /\ (\E j \in Unfinalized : sudoku[j].solved) => sudoku[i].solved]_vars

\* during an attempt, a cell solved by propagation and a cell with several
\* candidates both wait to be finalized
C13_Witness ==
    /\ pc = "generate"
    /\ Finalized # {}
    /\ \E j \in Unfinalized : sudoku[j].solved /\ Len(sudoku[j].possibleAnswers) = 1
    /\ \E j \in Unfinalized : ~sudoku[j].solved /\ Len(sudoku[j].possibleAnswers) >= 2

\* two different positions in one row, one column or one box
Neighbours(i, j) == i # j /\ \E u \in Units : i \in u /\ j \in u

\* C14: after each iteration of an attempt, the digit of a finalized cell is in
\* the candidates of no cell that is unfinalized, still unsolved and in its row,
\* column or box.
C14_PropagationInvariant ==
    pc = "generate" =>
        \A f \in Finalized : \A u \in Unfinalized :
            (Neighbours(f, u) /\ ~sudoku[u].solved) =>
                sudoku[f].answer \notin Range(sudoku[u].possibleAnswers)

\* an unsolved cell whose row, column and box each hold a finalized cell, with
\* candidates removed
C14_Witness ==
    /\ pc = "generate"
    /\ \E u \in Unfinalized :
          /\ ~sudoku[u].solved
          /\ Len(sudoku[u].possibleAnswers) < 9
          /\ \E f \in Finalized : f # u /\ rowOf(f) = rowOf(u) /\ boxOf(f) # boxOf(u)
          /\ \E f \in Finalized : f # u /\ colOf(f) = colOf(u) /\ boxOf(f) # boxOf(u)
          /\ \E f \in Finalized : f # u /\ boxOf(f) = boxOf(u)

Generating == pc \in {"generate", "check"}

\* C15: during generation no cell has an empty list of candidates; an unsolved
\* cell has at least two candidates; a cell is solved exactly when one candidate
\* is left, a digit 1..9; a cell becomes solved with the candidate that remained
\* or the digit chosen among its candidates, and from then on its candidates are
\* that one digit for the rest of the attempt.
C15_DomainsNeverEmpty ==
    /\ [](Generating =>
            \A i \in Pos :
                /\ Len(sudoku[i].possibleAnswers) >= 1
                /\ Range(sudoku[i].possibleAnswers) \subseteq 1 .. 9
                /\ ~sudoku[i].solved => Len(sudoku[i].possibleAnswers) >= 2
                /\ sudoku[i].solved <=> Len(sudoku[i].possibleAnswers) = 1)
    /\ [][pc = "generate" =>
            \A i \in Pos :
                /\ (~sudoku[i].solved /\ sudoku'[i].solved) =>
                       /\ sudoku'[i].possibleAnswers[1] \in Range(sudoku[i].possibleAnswers)
                       /\ sudoku'[i].answer = sudoku'[i].possibleAnswers[1]
                /\ sudoku[i].solved =>
                       /\ sudoku'[i].solved
                       /\ sudoku'[i].possibleAnswers = sudoku[i].possibleAnswers]_vars

\* during an attempt: a cell left with two candidates, a cell solved by
\* propagation and not yet finalized, and a solved cell a conflict has blanked
C15_Witness ==
    /\ pc = "generate"
    /\ \E i \in Unfinalized : ~sudoku[i].solved /\ Len(sudoku[i].possibleAnswers) = 2
    /\ \E i \in Unfinalized : sudoku[i].solved /\ sudoku[i].answer = sudoku[i].possibleAnswers[1]
    /\ \E i \in Unfinalized : sudoku[i].solved /\ sudoku[i].answer = 0

\* C16: lenOfPossible of a cell is the number of its candidates when the cell is
\* unsolved and 0 when it is solved, for every cell of the grid being generated.
C16_SolvedDomainSizeZero ==
    Generating =>
        \A i \in Pos :
            lenOfPossible(sudoku[i]) =
                IF sudoku[i].solved THEN 0 ELSE Cardinality(Range(sudoku[i].possibleAnswers))

\* C17: an attempt starts with the 81 positions unfinalized; every iteration
\* finalizes exactly one of them, with a digit 1..9, and leaves every cell
\* finalized before as it is; the grid goes to checkWin when, and only when, no
\* position is left, that is after exactly 81 iterations; and every attempt
\* comes to that point, whatever the draws.
C17_AttemptIs81Iterations ==
    /\ [](pc = "generate" =>
            /\ Cardinality(Unfinalized) = Len(cells)
            /\ Len(cells) \in 1 .. 81)
    /\ [](pc = "check" => Unfinalized = {})
    /\ [][pc = "check" /\ pc' = "generate" => Unfinalized' = Pos]_vars
    /\ [][pc = "generate" =>
            /\ Unfinalized' \subseteq Unfinalized
            /\ Cardinality(Unfinalized \ Unfinalized') = 1
            /\ \A i \in Unfinalized \ Unfinalized' : sudoku'[i].answer \in 1 .. 9
            /\ \A i \in Finalized : sudoku'[i] = sudoku[i]]_vars
    /\ (pc = "generate") ~> (pc = "check")

\* an attempt has ended: 81 positions finalized, each with a digit
C17_Witness ==
    /\ pc = "check"
    /\ Finalized = Pos
    /\ \A i \in Pos : sudoku[i].solved /\ sudoku[i].answer = sudoku[i].possibleAnswers[1]

\* C18: once checkWin has returned true for the grid a typed digit completed,
\* and until Clear answers, no click moves the cursor and no typed digit is
\* accepted, so no cell of the working grid changes.
C18_InputIgnoredAfterWin ==
    [][(pc = "play" /\ result /\ checkWin(board)) =>
           /\ row' = row
           /\ col' = col
           /\ keys' = keys
           /\ (game_over' = game_over => board' = board)]_vars

\* C19: at every cell of the carving pass 0 <= holesLeft <= squaresLeft, so the
\* chance holesLeft / squaresLeft lies in [0, 1] and holesLeft is never negative.
C19_HolesLeftInRange ==
    pc = "holes" => (0 <= holesLeft /\ holesLeft <= squaresLeft)

\* C20: right after SudokuGame.start has run (when the window is built and at
\* every Clear answers, also after typed digits and after I give up) every cell
\* of the working grid is as in the start puzzle, the clues with their digit and
\* the holes blank; and no step of the session changes a cell of the start puzzle.
C20_ClearRestoresStartPuzzle ==
    /\ [][(UIInit \/ clear_answers) =>
             /\ \A i \in Pos : board'[i] = startCells'[i]
             /\ \A i \in Pos : startCells'[i].answer = 0 => board'[i] = hole(board'[i])
             /\ game_over' = FALSE]_vars
    /\ [][pc = "play" => startCells' = startCells]_vars

\* the working grid is the start puzzle again, after typed digits were accepted
\* and after I give up
C20_Witness ==
    /\ pc = "play"
    /\ keys > 0
    /\ boardRef = "S"
    /\ \A i \in Pos : board[i] = startCells[i]
    /\ \E i \in Pos : startCells[i].answer = 0

====
